---------------------------- MODULE Spec2Model ----------------------------
(***************************************************************************)
(* Overlay lifecycle coordinator (class MobileModalOptimizer of            *)
(* src/src/utils/mobileModal.js) as a state machine over the document.     *)
(*                                                                         *)
(* One step of the model is one event-loop turn: a mutation batch handed   *)
(* to the MutationObserver callbacks, a user-input event handed to its     *)
(* listeners, a timer callback, or a call of the static manual trigger.    *)
(* Sequential code is written as operators from a state record to a state  *)
(* record (St is the record of the current state), composed in the order   *)
(* of the statements of the source.                                        *)
(***************************************************************************)
EXTENDS Integers, Sequences, FiniteSets, TLC

(***************************************************************************)
(* Bounds of the model.                                                    *)
(***************************************************************************)
\* most timers (setTimeout callbacks) pending at one time
MaxTimers == 2
\* most custom "close" listeners attached to one root over a run
MaxListeners == 2
\* most coordinator instances alive (the auto-initialised one included)
MaxInst == 2

(***************************************************************************)
(* Program constants.                                                      *)
(***************************************************************************)
\* window.innerWidth <= 768 selects the mobile branch
MobileBreakpoint == 768

\* the overlay roots the document may hold (node identities)
Roots == {"A", "B"}
\* viewport widths the environment switches between
Widths == {MobileBreakpoint, MobileBreakpoint + 1}
Insts == 1..MaxInst

\* selector list of checkForModal (additions)
ModalSelectors ==
    {".modal", ".popup", ".drawer", ".dialog", "[role=dialog]",
     "[role=alertdialog]", ".el-dialog", ".el-drawer", ".el-message-box"}
\* selector list of checkForModalRemoval (descendants of a removed node)
RemovalSelectors == {".modal", ".popup", ".drawer", "[role=dialog]"}
\* selector list of checkExistingModals (scan on construction)
ExistingSelectors ==
    {".modal", ".popup", ".drawer", "[role=dialog]", ".el-dialog", ".el-drawer"}
\* the selectors a root of the model may carry: one of each class of
\* selectors that the three lists above tell apart
RootKinds == {".modal", ".el-dialog", ".dialog"}

\* the elements an overlay root may hold: one that a content-region selector
\* matches, a backdrop, a close button
Parts == {"content", "backdrop", "button"}

\* the tracked body style properties
Props == {"position", "top", "left", "right", "bottom", "overflow", "height", "width"}

\* inline styles written by preventBackgroundScroll
LockStyles ==
    [p \in Props |->
        CASE p = "position" -> "fixed"
          [] p = "overflow" -> "hidden"
          [] p = "height" -> "100vh"
          [] p = "width" -> "100vw"
          [] OTHER -> "0"]

\* inline styles a page author may have put on the body
AuthoredStyles ==
    [p \in Props |->
        CASE p = "position" -> "relative"
          [] p = "overflow" -> "scroll"
          [] p = "height" -> "600px"
          [] p = "width" -> "320px"
          [] OTHER -> "10px"]

\* the sets of properties that carry an authored inline value initially
AuthoredSets == {{}, {"position", "overflow"}, Props}

\* the value the stylesheet cascade gives the body for a property without
\* inline value: the rules of App.vue (body is position fixed, width 100%,
\* height 100vh, overflow hidden under max-width 768px; overflow-x hidden
\* otherwise), resolved as getComputedStyle reports them
SheetValue(p, w) ==
    IF w <= MobileBreakpoint
    THEN CASE p = "position" -> "fixed"
           [] p = "overflow" -> "hidden"
           [] p = "height" -> "Hpx"
           [] p = "width" -> "Wpx"
           [] OTHER -> "0px"
    ELSE CASE p = "position" -> "static"
           [] p = "overflow" -> "hidden auto"
           [] p = "height" -> "Hpx"
           [] p = "width" -> "Wpx"
           [] OTHER -> "auto"

\* the resolved form getComputedStyle gives a declared value
Resolved(v) ==
    CASE v = "0" -> "0px"
      [] v = "100vh" -> "Hpx"
      [] v = "100vw" -> "Wpx"
      [] OTHER -> v

\* window.getComputedStyle(body)[p]
ComputedStyle(s, p) ==
    IF s.bodyStyle[p] # "" THEN Resolved(s.bodyStyle[p])
    ELSE SheetValue(p, s.innerWidth)

\* the empty object {}
EmptyStyles == [p \in {} |-> ""]

(***************************************************************************)
(* State.                                                                  *)
(***************************************************************************)
VARIABLES
    innerWidth,          \* window.innerWidth
    kind,                \* root -> the selector the root matches
    loc,                 \* root -> "out" | "body" (child of body) | "wrap" (inside the attached wrapper)
    insts,               \* number of coordinator instances constructed
    activeModals,        \* instance -> this.activeModals
    originalBodyStyles,  \* instance -> this.originalBodyStyles
    bodyAttr,            \* body has attribute data-modal-open
    bodyStyle,           \* body.style (inline), per tracked property
    marker,              \* root -> has class mobile-modal-optimized
    transform,           \* root -> declared transform of its content region
    btnListener,         \* root -> instance whose click listener its close button carries, 0 if none
    backdropListener,    \* root -> instance whose click listener its backdrop carries, 0 if none
    closeListeners,      \* root -> instances of its "close" listeners, in order of attachment
    timers,              \* pending setTimeout callbacks, in order of scheduling
    closedEvents,        \* root -> number of "closed" signals dispatched on it in the last turn
    preCapture,          \* instance -> body.style as it was before the instance's last capture
    presentation,        \* root -> the block of declarations its content region carries
    indicator,           \* root -> number of .modal-indicator elements in its content region
    closedSeen,          \* root -> what the listeners of "closed" saw at its dispatches in the last turn
    parts,               \* root -> the elements its subtree holds, of Parts
    region,              \* root -> the element that carries its layout: "" | "content" | "root"
    scen                 \* observer of the page: what happened since the document was last quiet

vars ==
    <<innerWidth, kind, loc, insts, activeModals, originalBodyStyles, bodyAttr,
      bodyStyle, marker, transform, btnListener, backdropListener,
      closeListeners, timers, closedEvents, preCapture, presentation,
      indicator, closedSeen, parts, region, scen>>

\* the current state as a record, closedEvents and closedSeen cleared for the
\* new turn
St ==
    [innerWidth |-> innerWidth, kind |-> kind, loc |-> loc, insts |-> insts,
     activeModals |-> activeModals, originalBodyStyles |-> originalBodyStyles,
     bodyAttr |-> bodyAttr, bodyStyle |-> bodyStyle, marker |-> marker,
     transform |-> transform, btnListener |-> btnListener,
     backdropListener |-> backdropListener, closeListeners |-> closeListeners,
     timers |-> timers, closedEvents |-> [r \in Roots |-> 0],
     preCapture |-> preCapture, presentation |-> presentation,
     indicator |-> indicator, closedSeen |-> [r \in Roots |-> {}],
     parts |-> parts, region |-> region]

\* the next state is the record s (the observer scen is set by Turn below)
Becomes(s) ==
    /\ innerWidth' = s.innerWidth
    /\ kind' = s.kind
    /\ loc' = s.loc
    /\ insts' = s.insts
    /\ activeModals' = s.activeModals
    /\ originalBodyStyles' = s.originalBodyStyles
    /\ bodyAttr' = s.bodyAttr
    /\ bodyStyle' = s.bodyStyle
    /\ marker' = s.marker
    /\ transform' = s.transform
    /\ btnListener' = s.btnListener
    /\ backdropListener' = s.backdropListener
    /\ closeListeners' = s.closeListeners
    /\ timers' = s.timers
    /\ closedEvents' = s.closedEvents
    /\ preCapture' = s.preCapture
    /\ presentation' = s.presentation
    /\ indicator' = s.indicator
    /\ closedSeen' = s.closedSeen
    /\ parts' = s.parts
    /\ region' = s.region

(***************************************************************************)
(* Helpers for arrays.                                                     *)
(***************************************************************************)
\* Array.prototype.includes as it would be if it never found the element
IncludesNever(seq, m) == FALSE

\* Array.prototype.includes
Includes(seq, m) == \E k \in 1..Len(seq) : seq[k] = m

\* Array.prototype.indexOf, 1-based; 0 stands for -1
IndexOf(seq, m) ==
    IF Includes(seq, m) THEN CHOOSE k \in 1..Len(seq) :
                                 /\ seq[k] = m
                                 /\ \A j \in 1..(k - 1) : seq[j] # m
    ELSE 0

\* seq.splice(k, 1) as it would be if it removed the last element (pop)
SplicePop(seq, k) == SubSeq(seq, 1, Len(seq) - 1)

\* seq.splice(k, 1)
Splice(seq, k) == [j \in 1..(Len(seq) - 1) |-> IF j < k THEN seq[j] ELSE seq[j + 1]]

\* the orders in which a set of nodes may stand in the document
Orders(S) == {f \in [1..Cardinality(S) -> S] : \A x \in S : \E k \in DOMAIN f : f[k] = x}


(***************************************************************************)
(* Scroll Lock Manager and Snapshot Store.                                 *)
(***************************************************************************)
\* saveBodyStyles() as it would be without the test of line 120
SaveBodyStylesAlways(s, i) ==
    [s EXCEPT !.originalBodyStyles[i] = [p \in Props |-> ComputedStyle(s, p)],
              !.preCapture[i] = s.bodyStyle]

\* saveBodyStyles(): capture the computed styles when the snapshot is empty
SaveBodyStyles(s, i) ==
    IF DOMAIN s.originalBodyStyles[i] = {}
    THEN [s EXCEPT !.originalBodyStyles[i] = [p \in Props |-> ComputedStyle(s, p)],
                   !.preCapture[i] = s.bodyStyle]
    ELSE s

\* preventBackgroundScroll(): set the flag and the lock styles unless the flag is set
PreventBackgroundScroll(s) ==
    IF ~s.bodyAttr
    THEN [s EXCEPT !.bodyAttr = TRUE, !.bodyStyle = LockStyles]
    ELSE s

\* restoreBodyStyles() as it would be without the test of the flag
RestoreBodyStylesUnguarded(s, i) ==
    [s EXCEPT !.bodyAttr = FALSE,
              !.bodyStyle = [p \in Props |->
                                IF p \in DOMAIN s.originalBodyStyles[i]
                                THEN s.originalBodyStyles[i][p]
                                ELSE s.bodyStyle[p]],
              !.originalBodyStyles[i] = EmptyStyles]

\* restoreBodyStyles(): when the flag is set, clear it, write every captured
\* property into body.style and empty the snapshot
RestoreBodyStyles(s, i) ==
    IF s.bodyAttr
    THEN [s EXCEPT !.bodyAttr = FALSE,
                   !.bodyStyle = [p \in Props |->
                                     IF p \in DOMAIN s.originalBodyStyles[i]
                                     THEN s.originalBodyStyles[i][p]
                                     ELSE s.bodyStyle[p]],
                   !.originalBodyStyles[i] = EmptyStyles]
    ELSE s

(***************************************************************************)
(* Layout Applicator.                                                      *)
(***************************************************************************)
\* style texts that carry a priority
WithPriority == {"translateY(0) !important", "translateY(100%) !important"}

\* element.style.transform = text as it would be if the setter took the
\* value of a text that carries a priority
StyleSetterLenient(old, text) ==
    IF text = "translateY(0) !important" THEN "translateY(0)"
    ELSE IF text = "translateY(100%) !important" THEN "translateY(100%)"
    ELSE text

\* element.style.transform = text: the CSSOM setter takes a value only, and
\* drops an assignment whose text does not parse as one
StyleSetter(old, text) == IF text \in WithPriority THEN old ELSE text

\* static isMobile() as it would be with a strict comparison
IsMobileStrict(s) == s.innerWidth < MobileBreakpoint

\* static isMobile()
IsMobile(s) == s.innerWidth <= MobileBreakpoint

\* findModalContent(modal) as it would be without the fallback of line 213
FindModalContentNull(s, m) == IF "content" \in s.parts[m] THEN "content" ELSE "null"

\* findModalContent(modal): the element a content selector matches, else the
\* root itself; never null
FindModalContent(s, m) == IF "content" \in s.parts[m] THEN "content" ELSE "root"

\* addTopIndicator(modalContent) as it would be without the test of line 218
AddTopIndicatorAlways(s, m) == [s EXCEPT !.indicator[m] = @ + 1]

\* addTopIndicator(modalContent): insert an indicator unless one is there
AddTopIndicator(s, m) ==
    IF s.indicator[m] > 0 THEN s
    ELSE [s EXCEPT !.indicator[m] = 1]

\* setModalStyles(modal) as it would be with the desktop block on every width
SetModalStylesDesktop(s, i, m) ==
    [s EXCEPT !.transform[m] = "translate(-50%, -50%)",
              !.region[m] = FindModalContent(s, m),
              !.presentation[m] = IF @ \in {"", "centered"} THEN "centered" ELSE "mixed"]

\* setModalStyles(modal): the content region is never null (findModalContent
\* falls back to the root); of the declarations appended to cssText the
\* transform is kept, the last one written being the one in force.  The
\* mobile block ("sheet": fixed, bottom 0, left 0, right 0, width 100vw)
\* overrides every declaration of the desktop block ("centered": fixed,
\* top 50%, left 50%); the desktop block leaves bottom, right and width of an
\* earlier mobile block in place ("mixed").
SetModalStyles(s, i, m) ==
    IF s.innerWidth <= MobileBreakpoint
    THEN AddTopIndicator(
             [s EXCEPT !.transform[m] = "translateY(100%)",
                       !.presentation[m] = "sheet",
                       !.region[m] = FindModalContent(s, m),
                       !.timers = Append(@, [type |-> "entrance", inst |-> i, modal |-> m])],
             m)
    ELSE [s EXCEPT !.transform[m] = "translate(-50%, -50%)",
                   !.region[m] = FindModalContent(s, m),
                   !.presentation[m] = IF @ \in {"", "centered"} THEN "centered" ELSE "mixed"]

\* addBackdropClose(modal): nothing without a backdrop; else wire the
\* backdrop unless it carries data-backdrop-close
AddBackdropClose(s, i, m) ==
    IF "backdrop" \notin s.parts[m] THEN s
    ELSE IF s.backdropListener[m] = 0
         THEN [s EXCEPT !.backdropListener[m] = i]
         ELSE s

\* applyModalOptimizations(modal) as it would be without classList.add
ApplyModalOptimizationsUnmarked(s, i, m) ==
    AddBackdropClose(PreventBackgroundScroll(SetModalStyles(s, i, m)), i, m)

\* applyModalOptimizations(modal); optimizeModalScroll styles a sub-region and
\* touches nothing the coordinator reads
ApplyModalOptimizations(s, i, m) ==
    LET s1 == [s EXCEPT !.marker[m] = TRUE]
        s2 == SetModalStyles(s1, i, m)
        s3 == PreventBackgroundScroll(s2)
    IN  AddBackdropClose(s3, i, m)

(***************************************************************************)
(* Close Coordinator.                                                      *)
(***************************************************************************)
\* setupModalCloseListeners(modal): wire the close button unless it carries
\* data-close-listener; add a "close" listener to the root
SetupModalCloseListeners(s, i, m) ==
    LET s1 == IF "button" \in s.parts[m] /\ s.btnListener[m] = 0
              THEN [s EXCEPT !.btnListener[m] = i]
              ELSE s
    IN  [s1 EXCEPT !.closeListeners[m] = Append(@, i)]

\* modal.dispatchEvent(new CustomEvent('closed')): the listeners of the page
\* run now, and see the document and the coordinator as they are
DispatchClosed(s, i, m) ==
    [s EXCEPT !.closedEvents[m] = @ + 1,
              !.closedSeen[m] = @ \cup {[registered |-> Includes(s.activeModals[i], m),
                                         marker |-> s.marker[m],
                                         locked |-> s.bodyAttr,
                                         others |-> s.activeModals[i] # <<>>]}]

\* doCloseModal(modal) as it would be with the restore not guarded by the
\* Registry being empty
DoCloseModalRestoresAlways(s, i, m) ==
    LET index == IndexOf(s.activeModals[i], m)
        s1 == IF index > 0
              THEN [s EXCEPT !.activeModals[i] = Splice(@, index)]
              ELSE s
        s2 == [s1 EXCEPT !.marker[m] = FALSE]
        s3 == RestoreBodyStyles(s2, i)
    IN  DispatchClosed(s3, i, m)

\* doCloseModal(modal) as it would be if it left the marker class on the root
DoCloseModalKeepsMarker(s, i, m) ==
    LET index == IndexOf(s.activeModals[i], m)
        s1 == IF index > 0
              THEN [s EXCEPT !.activeModals[i] = Splice(@, index)]
              ELSE s
        s3 == IF Len(s1.activeModals[i]) = 0 THEN RestoreBodyStyles(s1, i) ELSE s1
    IN  DispatchClosed(s3, i, m)

\* doCloseModal(modal) as it would be if it dispatched "closed" first
DoCloseModalDispatchesFirst(s, i, m) ==
    LET s0 == DispatchClosed(s, i, m)
        index == IndexOf(s0.activeModals[i], m)
        s1 == IF index > 0
              THEN [s0 EXCEPT !.activeModals[i] = Splice(@, index)]
              ELSE s0
        s2 == [s1 EXCEPT !.marker[m] = FALSE]
    IN  IF Len(s2.activeModals[i]) = 0 THEN RestoreBodyStyles(s2, i) ELSE s2

\* doCloseModal(modal)
DoCloseModal(s, i, m) ==
    LET index == IndexOf(s.activeModals[i], m)
        s1 == IF index > 0
              THEN [s EXCEPT !.activeModals[i] = Splice(@, index)]
              ELSE s
        s2 == [s1 EXCEPT !.marker[m] = FALSE]
        s3 == IF Len(s2.activeModals[i]) = 0 THEN RestoreBodyStyles(s2, i) ELSE s2
    IN  DispatchClosed(s3, i, m)

\* closeModal(modal) as it would be if it deferred on every width
CloseModalAlwaysDeferred(s, i, m) ==
    [s EXCEPT !.transform[m] = StyleSetter(@, "translateY(100%) !important"),
              !.timers = Append(@, [type |-> "close", inst |-> i, modal |-> m])]

\* closeModal(modal)
CloseModal(s, i, m) ==
    IF s.innerWidth <= MobileBreakpoint /\ FindModalContent(s, m) # "null"
    THEN [s EXCEPT !.transform[m] = StyleSetter(@, "translateY(100%) !important"),
                   !.timers = Append(@, [type |-> "close", inst |-> i, modal |-> m])]
    ELSE DoCloseModal(s, i, m)

(***************************************************************************)
(* Overlay Registry and Tree Watcher.                                      *)
(***************************************************************************)
\* optimizeModal(modal) as it would be if a registration cancelled the close
\* continuations pending for the root
OptimizeModalAbortsClose(s, i, m) ==
    IF Includes(s.activeModals[i], m) THEN s
    ELSE LET s0 == [s EXCEPT !.timers =
                        SelectSeq(@, LAMBDA t : ~(t.type = "close" /\ t.modal = m))]
             s1 == [s0 EXCEPT !.activeModals[i] = Append(@, m)]
             s2 == SaveBodyStyles(s1, i)
             s3 == ApplyModalOptimizations(s2, i, m)
         IN  SetupModalCloseListeners(s3, i, m)

\* optimizeModal(modal)
OptimizeModal(s, i, m) ==
    IF Includes(s.activeModals[i], m) THEN s
    ELSE LET s1 == [s EXCEPT !.activeModals[i] = Append(@, m)]
             s2 == SaveBodyStyles(s1, i)
             s3 == ApplyModalOptimizations(s2, i, m)
         IN  SetupModalCloseListeners(s3, i, m)

\* forEach over a node list: optimizeModal for every node not yet included
RECURSIVE OptimizeAll(_, _, _)
OptimizeAll(s, i, nodes) ==
    IF nodes = <<>> THEN s
    ELSE OptimizeAll(IF ~Includes(s.activeModals[i], Head(nodes))
                     THEN OptimizeModal(s, i, Head(nodes))
                     ELSE s,
                     i, Tail(nodes))

\* checkForModal(element) for an added overlay root
CheckForModalRoot(s, i, r) ==
    IF s.kind[r] \in ModalSelectors /\ ~Includes(s.activeModals[i], r)
    THEN OptimizeModal(s, i, r)
    ELSE s

\* checkForModal(element) for an added wrapper (no overlay itself) whose
\* descendants are the roots of children, in document order
CheckForModalWrapper(s, i, children) ==
    OptimizeAll(s, i, SelectSeq(children, LAMBDA c : s.kind[c] \in ModalSelectors))

\* checkForModalRemoval(element) for a removed overlay root as it would be
\* if it ran the close sequence
CheckForModalRemovalRootByClose(s, i, r) ==
    IF IndexOf(s.activeModals[i], r) > 0 THEN CloseModal(s, i, r) ELSE s

\* checkForModalRemoval(element) for a removed overlay root as it would be if
\* it restored before it looked the root up
CheckForModalRemovalRootRestoresFirst(s, i, r) ==
    LET s1 == RestoreBodyStyles(s, i)
        index == IndexOf(s1.activeModals[i], r)
    IN  IF index > 0
        THEN [s1 EXCEPT !.activeModals[i] = Splice(@, index)]
        ELSE s1

\* checkForModalRemoval(element) for a removed overlay root
CheckForModalRemovalRoot(s, i, r) ==
    LET index == IndexOf(s.activeModals[i], r)
    IN  IF index > 0
        THEN LET s1 == RestoreBodyStyles(s, i)
             IN  [s1 EXCEPT !.activeModals[i] = Splice(@, index)]
        ELSE s

\* forEach over the descendants found: splice each one that is included
RECURSIVE SpliceAll(_, _, _)
SpliceAll(s, i, nodes) ==
    IF nodes = <<>> THEN s
    ELSE LET modalIndex == IndexOf(s.activeModals[i], Head(nodes))
         IN  SpliceAll(IF modalIndex > 0
                       THEN [s EXCEPT !.activeModals[i] = Splice(@, modalIndex)]
                       ELSE s,
                       i, Tail(nodes))

\* checkForModalRemoval(element) for a removed wrapper
CheckForModalRemovalWrapper(s, i, children) ==
    SpliceAll(s, i, SelectSeq(children, LAMBDA c : s.kind[c] \in RemovalSelectors))

\* checkExistingModals(): nodes are the roots in the document, in document order
CheckExistingModals(s, i, nodes) ==
    OptimizeAll(s, i, SelectSeq(nodes, LAMBDA c : s.kind[c] \in ExistingSelectors))


(***************************************************************************)
(* Observer of the page.  scen records, from the moment an overlay is      *)
(* opened on a quiet document (nothing registered, no timer pending):      *)
(* the overlays opened one at a time, in order; the overlays whose close   *)
(* sequence has completed ("closed" dispatched), in order of their first   *)
(* completion; the number of Escape keypresses; whether another dismissal  *)
(* trigger has fired.  It is Off once the page does anything else (a       *)
(* removal, a third opening, a resize, a manual registration), and        *)
(* Unobserved throughout when nobody observes the page.                    *)
(***************************************************************************)
Off == [opened |-> <<>>, closed |-> <<>>, keys |-> 0, other |-> FALSE]
Unobserved == [opened |-> <<>>, closed |-> <<>>, keys |-> 0, other |-> TRUE]

Quiet ==
    /\ \A i \in Insts : activeModals[i] = <<>>
    /\ timers = <<>>

\* most Escape keypresses the observer follows
MaxKeys == 2

RECURSIVE AppendNew(_, _)
AppendNew(seq, S) ==
    IF S = {} THEN seq
    ELSE LET r == CHOOSE x \in S : TRUE
         IN  AppendNew(IF Includes(seq, r) THEN seq ELSE Append(seq, r), S \ {r})

\* the observer that only keeps the event of the last turn
Traced == [last |-> [type |-> "init"]]

\* most "closed" events per root the observer counts
MaxClosed == 2

\* the observer that counts the "closed" events dispatched on every root
Counted == [count |-> [r \in Roots |-> 0]]

\* the observer after a turn of type ev that leads to the state s
Observe(ev, s) ==
    LET completed == {r \in Roots : s.closedEvents[r] > 0}
    IN  CASE DOMAIN scen = {"last"} -> [last |-> ev]
          [] DOMAIN scen = {"count"} ->
               [count |-> [r \in Roots |->
                   IF scen.count[r] + s.closedEvents[r] > MaxClosed
                   THEN MaxClosed
                   ELSE scen.count[r] + s.closedEvents[r]]]
          [] DOMAIN scen # {"last"} /\ scen = Unobserved -> Unobserved
          [] DOMAIN scen # {"last"} /\ scen # Unobserved /\ ev.type = "open" ->
               IF Quiet
               THEN [Off EXCEPT !.opened = <<ev.root>>]
               ELSE IF /\ Len(scen.opened) = 1
                       /\ scen.closed = <<>> /\ scen.keys = 0 /\ ~scen.other
                    THEN [scen EXCEPT !.opened = Append(@, ev.root)]
                    ELSE Off
          [] DOMAIN scen # {"last"} /\ scen # Unobserved /\ ev.type \in {"trigger", "key", "timer"} ->
               IF scen = Off \/ (ev.type = "key" /\ scen.keys = MaxKeys)
               THEN Off
               ELSE [scen EXCEPT !.keys = IF ev.type = "key" THEN @ + 1 ELSE @,
                                 !.other = @ \/ ev.type = "trigger",
                                 !.closed = AppendNew(@, completed)]
          [] DOMAIN scen # {"last"} /\ scen # Unobserved /\ ev.type = "none" -> scen
          [] OTHER -> Off

\* one event-loop turn: the state becomes s, and the observer sees ev
Turn(s, ev) ==
    /\ Len(s.timers) <= MaxTimers
    /\ \A r \in Roots : Len(s.closeListeners[r]) <= MaxListeners
    /\ Becomes(s)
    /\ scen' = Observe(ev, s)

(***************************************************************************)
(* Event-loop turns.                                                       *)
(***************************************************************************)
\* the MutationObserver callback of every instance, in order of construction,
\* for a batch that adds the overlay root r
RECURSIVE ObserveAddedRoot(_, _, _)
ObserveAddedRoot(s, i, r) ==
    IF i > s.insts THEN s
    ELSE ObserveAddedRoot(CheckForModalRoot(s, i, r), i + 1, r)

\* ... for a batch that adds a wrapper
RECURSIVE ObserveAddedWrapper(_, _, _)
ObserveAddedWrapper(s, i, children) ==
    IF i > s.insts THEN s
    ELSE ObserveAddedWrapper(CheckForModalWrapper(s, i, children), i + 1, children)

\* ... for a batch that removes the overlay root r
RECURSIVE ObserveRemovedRoot(_, _, _)
ObserveRemovedRoot(s, i, r) ==
    IF i > s.insts THEN s
    ELSE ObserveRemovedRoot(CheckForModalRemovalRoot(s, i, r), i + 1, r)

\* ... for a batch that removes a wrapper
RECURSIVE ObserveRemovedWrapper(_, _, _)
ObserveRemovedWrapper(s, i, children) ==
    IF i > s.insts THEN s
    ELSE ObserveRemovedWrapper(CheckForModalRemovalWrapper(s, i, children), i + 1, children)

\* the keydown listener as it would be if it closed the first-inserted entry
RECURSIVE KeydownAllFirst(_, _, _)
KeydownAllFirst(s, i, key) ==
    IF i > s.insts THEN s
    ELSE KeydownAllFirst(IF key = "Escape" /\ Len(s.activeModals[i]) > 0
                         THEN CloseModal(s, i, s.activeModals[i][1])
                         ELSE s,
                         i + 1, key)

\* the keydown listener of every instance, in order of construction
RECURSIVE KeydownAll(_, _, _)
KeydownAll(s, i, key) ==
    IF i > s.insts THEN s
    ELSE KeydownAll(IF key = "Escape" /\ Len(s.activeModals[i]) > 0
                    THEN CloseModal(s, i, s.activeModals[i][Len(s.activeModals[i])])
                    ELSE s,
                    i + 1, key)

\* the "close" listeners of a root, in order of attachment
RECURSIVE CloseListenersAll(_, _, _)
CloseListenersAll(s, listeners, m) ==
    IF listeners = <<>> THEN s
    ELSE CloseListenersAll(CloseModal(s, Head(listeners), m), Tail(listeners), m)

\* the MutationObserver callback of every instance for a batch of two
\* records: the overlay root r added, then r removed
RECURSIVE ObserveAddedRemovedRoot(_, _, _)
ObserveAddedRemovedRoot(s, i, r) ==
    IF i > s.insts THEN s
    ELSE ObserveAddedRemovedRoot(
             CheckForModalRemovalRoot(CheckForModalRoot(s, i, r), i, r), i + 1, r)

\* ... a wrapper added, then the wrapper removed
RECURSIVE ObserveAddedRemovedWrapper(_, _, _)
ObserveAddedRemovedWrapper(s, i, children) ==
    IF i > s.insts THEN s
    ELSE ObserveAddedRemovedWrapper(
             CheckForModalRemovalWrapper(CheckForModalWrapper(s, i, children), i, children),
             i + 1, children)

\* the page inserts the overlay root r as such
AddNode(r) ==
    /\ loc[r] = "out"
    /\ Turn(ObserveAddedRoot([St EXCEPT !.loc[r] = "body"], 1, r),
            [type |-> "open", root |-> r])

\* the page inserts a wrapper element that holds the overlay roots children
AddWrapper(children) ==
    /\ children # <<>>
    /\ \A r \in Roots : loc[r] # "wrap"
    /\ \A k \in DOMAIN children : loc[children[k]] = "out"
    /\ LET inside == {children[k] : k \in DOMAIN children}
       IN  Turn(ObserveAddedWrapper(
                    [St EXCEPT !.loc = [r \in Roots |-> IF r \in inside THEN "wrap" ELSE @[r]]],
                    1, children),
                IF Len(children) = 1 THEN [type |-> "open", root |-> children[1]]
                ELSE [type |-> "opens"])

\* the page removes the overlay root r as such
RemoveNode(r) ==
    /\ loc[r] # "out"
    /\ Turn(ObserveRemovedRoot([St EXCEPT !.loc[r] = "out"], 1, r),
            [type |-> "remove",
             matched |-> \E i \in 1..insts : Includes(activeModals[i], r)])

\* the page removes the wrapper with all it holds
RemoveWrapper(children) ==
    /\ children # <<>>
    /\ {children[k] : k \in DOMAIN children} = {r \in Roots : loc[r] = "wrap"}
    /\ Turn(ObserveRemovedWrapper(
                [St EXCEPT !.loc = [r \in Roots |-> IF @[r] = "wrap" THEN "out" ELSE @[r]]],
                1, children),
            [type |-> "remove",
             matched |-> \E i \in 1..insts, k \in DOMAIN children :
                             Includes(activeModals[i], children[k])])

\* the page inserts the overlay root r and removes it again before the
\* mutation batch is delivered
AddRemoveNode(r) ==
    /\ loc[r] = "out"
    /\ Turn(ObserveAddedRemovedRoot(St, 1, r), [type |-> "remove"])

\* the page inserts a wrapper that holds the overlay roots children and
\* removes it again before the mutation batch is delivered
AddRemoveWrapper(children) ==
    /\ children # <<>>
    /\ \A k \in DOMAIN children : loc[children[k]] = "out"
    /\ Turn(ObserveAddedRemovedWrapper(St, 1, children), [type |-> "remove"])

\* click on the close button of r
ClickClose(r) ==
    /\ loc[r] # "out"
    /\ btnListener[r] # 0
    /\ Turn(CloseModal(St, btnListener[r], r), [type |-> "trigger"])

\* the backdrop listener as it would be without the test of e.target
ClickBackdropAnyTarget(r, target) ==
    /\ loc[r] # "out"
    /\ backdropListener[r] # 0
    /\ Turn(CloseModal(St, backdropListener[r], r), [type |-> "trigger"])

\* click that reaches the backdrop listener of r; target tells whether the
\* backdrop itself or one of its children was clicked
ClickBackdrop(r, target) ==
    /\ loc[r] # "out"
    /\ backdropListener[r] # 0
    /\ IF target = "backdrop"
       THEN Turn(CloseModal(St, backdropListener[r], r), [type |-> "trigger"])
       ELSE Turn(St, [type |-> "none", click |-> target])

\* the page dispatches the custom "close" signal on r
DispatchClose(r) ==
    /\ loc[r] # "out"
    /\ closeListeners[r] # <<>>
    /\ Turn(CloseListenersAll(St, closeListeners[r], r), [type |-> "trigger"])

\* the keys the user presses
Keys == {"Escape", "Enter"}

\* keydown on the document
Keydown(key) ==
    /\ key \in Keys
    /\ Turn(KeydownAll(St, 1, key),
            IF key = "Escape" THEN [type |-> "key"] ELSE [type |-> "none"])

\* the k-th pending timer may be the next to fire: the timers before it were
\* scheduled no later, so only a 300 ms timer can be overtaken, by a 10 ms one
CanFire(k) ==
    \A j \in 1..(k - 1) : timers[j].type = "close" /\ timers[k].type = "entrance"

\* a setTimeout callback runs
FireTimer(k) ==
    /\ k \in DOMAIN timers
    /\ CanFire(k)
    /\ LET t == timers[k]
           s == [St EXCEPT !.timers = Splice(@, k)]
       IN  Turn(IF t.type = "entrance"
                THEN [s EXCEPT !.transform[t.modal] =
                                   StyleSetter(@, "translateY(0) !important")]
                ELSE DoCloseModal(s, t.inst, t.modal),
                [type |-> "timer"])

\* the viewport is resized
Resize(w) ==
    /\ w # innerWidth
    /\ Turn([St EXCEPT !.innerWidth = w], [type |-> "resize"])

\* MobileModalOptimizer.optimizeModal(r), the static manual trigger: a new
\* instance is constructed (it scans the document, nodes in document order)
\* and registers r
ManualOptimize(r, nodes) ==
    /\ insts < MaxInst
    /\ {nodes[k] : k \in DOMAIN nodes} = {x \in Roots : loc[x] # "out"}
    /\ Len(nodes) = Cardinality({x \in Roots : loc[x] # "out"})
    /\ LET i == insts + 1
           s1 == CheckExistingModals([St EXCEPT !.insts = i], i, nodes)
       IN  Turn(OptimizeModal(s1, i, r), [type |-> "manual"])

(***************************************************************************)
(* Specifications.                                                         *)
(***************************************************************************)
\* the state after DOMContentLoaded: one instance, constructed on a document
\* without overlays; styles are the inline body styles the page may start
\* with, observer tells whether the page is observed, structures are the
\* subtrees the overlays may have
InitOf(styles, observer, structures) ==
    /\ innerWidth \in Widths
    /\ kind \in [Roots -> RootKinds]
    /\ loc = [r \in Roots |-> "out"]
    /\ insts = 1
    /\ activeModals = [i \in Insts |-> <<>>]
    /\ originalBodyStyles = [i \in Insts |-> EmptyStyles]
    /\ bodyAttr = FALSE
    /\ bodyStyle \in styles
    /\ marker = [r \in Roots |-> FALSE]
    /\ transform = [r \in Roots |-> ""]
    /\ btnListener = [r \in Roots |-> 0]
    /\ backdropListener = [r \in Roots |-> 0]
    /\ closeListeners = [r \in Roots |-> <<>>]
    /\ timers = <<>>
    /\ closedEvents = [r \in Roots |-> 0]
    /\ preCapture = [i \in Insts |-> EmptyStyles]
    /\ presentation = [r \in Roots |-> ""]
    /\ indicator = [r \in Roots |-> 0]
    /\ closedSeen = [r \in Roots |-> {}]
    /\ parts \in structures
    /\ region = [r \in Roots |-> ""]
    /\ scen = observer

\* ... every overlay with a content element, a backdrop and a close button
InitWith(styles, observer) == InitOf(styles, observer, {[r \in Roots |-> Parts]})

\* a body with the authored inline values on the properties of S
InlineStyles(S) == [p \in Props |-> IF p \in S THEN AuthoredStyles[p] ELSE ""]

Init == InitWith({InlineStyles(S) : S \in AuthoredSets}, Unobserved)

AllOrders == UNION {Orders(S) : S \in SUBSET Roots}

\* the page with its auto-initialised coordinator, the viewport as it is
Next ==
    \/ \E r \in Roots : AddNode(r)
    \/ \E children \in AllOrders : AddWrapper(children)
    \/ \E r \in Roots : RemoveNode(r)
    \/ \E children \in AllOrders : RemoveWrapper(children)
    \/ \E r \in Roots : ClickClose(r)
    \/ \E r \in Roots, target \in {"backdrop", "child"} : ClickBackdrop(r, target)
    \/ \E r \in Roots : DispatchClose(r)
    \/ \E key \in Keys : Keydown(key)
    \/ \E k \in 1..MaxTimers : FireTimer(k)

Spec == Init /\ [][Next]_vars

\* the page, and resizes of the viewport
NextResize ==
    \/ Next
    \/ \E w \in Widths : Resize(w)

InitResize ==
    /\ InitWith({InlineStyles({})}, Unobserved)
    /\ kind = [r \in Roots |-> IF r = "A" THEN ".modal" ELSE ".dialog"]

SpecResize == InitResize /\ [][NextResize]_vars

\* the page, and calls of the exposed manual trigger
NextManual ==
    \/ Next
    \/ \E r \in Roots, nodes \in AllOrders : ManualOptimize(r, nodes)

SpecManual == InitWith({InlineStyles({})}, Unobserved) /\ [][NextManual]_vars

\* the page under observation
SpecScenario == InitWith({InlineStyles({})}, Off) /\ [][Next]_vars

\* the page on the mobile branch (the one that defers), with one overlay of
\* a selector the removal list knows and one of a selector it does not, every
\* pending timer callback being run in the end: the event loop runs the
\* callback of the timer that is due first
InitLive ==
    /\ InitWith({InlineStyles({})}, Unobserved)
    /\ innerWidth = MobileBreakpoint
    /\ kind = [r \in Roots |-> IF r = "A" THEN ".modal" ELSE ".dialog"]

SpecLive == InitLive /\ [][Next]_vars /\ WF_vars(FireTimer(1))

\* the page, the event of the last turn being kept
InitTurns == InitWith({InlineStyles({})}, Traced)

SpecTurns == InitTurns /\ [][Next]_vars

\* the page on which every overlay is opened once and never removed, and the
\* user fires dismissal triggers at the overlays that are open; the "closed"
\* events are counted
InitTriggers ==
    /\ InitWith({InlineStyles({})}, Counted)
    /\ kind = [r \in Roots |-> IF r = "A" THEN ".modal" ELSE ".dialog"]

\* a click on the close button of an overlay that is registered
ClickCloseOpen(r) == Includes(activeModals[1], r) /\ ClickClose(r)

\* a click that reaches the backdrop listener of an overlay that is registered
ClickBackdropOpen(r, target) == Includes(activeModals[1], r) /\ ClickBackdrop(r, target)

NextTriggers ==
    \/ \E r \in Roots : AddNode(r)
    \/ \E r \in Roots : ClickCloseOpen(r)
    \/ \E r \in Roots, target \in {"backdrop", "child"} : ClickBackdropOpen(r, target)
    \/ \E key \in Keys : Keydown(key)
    \/ \E k \in 1..MaxTimers : FireTimer(k)

SpecTriggers == InitTriggers /\ [][NextTriggers]_vars

\* the page with an overlay A that may lack a content element, a backdrop, a
\* close button, or any of them, and a complete overlay B
InitBare ==
    /\ InitOf({InlineStyles({})}, Unobserved,
              {[r \in Roots |-> IF r = "A" THEN P ELSE Parts] : P \in SUBSET Parts})
    /\ kind = [r \in Roots |-> IF r = "A" THEN ".modal" ELSE ".dialog"]

SpecBare == InitBare /\ [][Next]_vars

\* the page, and nodes added and removed within one mutation batch
NextBatch ==
    \/ Next
    \/ \E r \in Roots : AddRemoveNode(r)
    \/ \E children \in AllOrders : AddRemoveWrapper(children)

SpecBatch == InitWith({InlineStyles({})}, Unobserved) /\ [][NextBatch]_vars

(***************************************************************************)
(* Properties.  The Registry of a claim is activeModals of the             *)
(* auto-initialised instance 1 unless the claim speaks of the manual       *)
(* trigger.                                                                *)
(***************************************************************************)
Registry == activeModals[1]

\* a close continuation for m is pending among the timers T
Closing(T, m) == \E k \in DOMAIN T : T[k].type = "close" /\ T[k].modal = m

\* the number of close continuations pending for m among the timers T
ClosePending(T, m) == Cardinality({k \in DOMAIN T : T[k].type = "close" /\ T[k].modal = m})

\* C1: between event-loop turns the flag data-modal-open is set if and only
\* if the Registry is non-empty.
LockFlagIffRegistryNonEmpty == bodyAttr <=> (Registry # <<>>)

\* C2: a turn in which the Tree Watcher deregisters an overlay whose root, or
\* an ancestor of it, was removed disengages the lock if and only if it
\* leaves the Registry empty: otherwise flag and body styles stay untouched.
WatcherDisengagesIffEmptied ==
    [][((\E r \in Roots : loc[r] # "out" /\ loc'[r] = "out") /\ Registry' # Registry)
         => IF Registry' = <<>>
            THEN ~bodyAttr' /\ (bodyAttr => bodyStyle' = originalBodyStyles[1])
            ELSE bodyAttr' = bodyAttr /\ bodyStyle' = bodyStyle]_vars

\* C3: when a lock session ends (the flag is cleared), every tracked property
\* of body.style equals its value from before the capture of that session.
SnapshotRoundTrip ==
    [][(bodyAttr /\ ~bodyAttr') => bodyStyle' = preCapture[1]]_vars

\* the number of Registry entries for r, over the n instances with Registries am
EntryCount(am, n, r) == Cardinality({i \in 1..n : Includes(am[i], r)})

\* C4: a registration turn that meets an already registered root adds neither
\* a Registry entry nor a close-listener for that root.
RegistrationIdempotent ==
    [][\A r \in Roots :
          EntryCount(activeModals, insts, r) > 0
            => /\ EntryCount(activeModals', insts', r) <= 1
               /\ Len(closeListeners'[r]) <= Len(closeListeners[r])]_vars

\* C5: with overlay a opened and then overlay b opened, and no dismissal but
\* Escape keypresses: after the first keypress b is closing or closed and a
\* is open and not closing; after the second keypress a is closing or closed.
LifoEscape ==
    (Len(scen.opened) = 2 /\ ~scen.other /\ scen.keys >= 1)
      => LET a == scen.opened[1]
             b == scen.opened[2]
         IN  /\ scen.keys = 1
                   => /\ Includes(scen.closed, b) \/ Closing(timers, b)
                      /\ Includes(Registry, a) /\ ~Closing(timers, a)
             /\ scen.keys = 2
                   => Includes(scen.closed, a) \/ Closing(timers, a)

\* C6: on a viewport of width <= 768, while a close continuation for a
\* registered overlay is pending and none of its continuations runs (and its
\* root stays in the tree), the overlay stays in the Registry, keeps its
\* marker class, and the lock flag stays set.
MobileCloseDefers ==
    [][\A m \in Roots :
          (/\ innerWidth <= MobileBreakpoint
           /\ Closing(timers, m)
           /\ ClosePending(timers', m) >= ClosePending(timers, m)
           /\ loc'[m] = loc[m]
           /\ Includes(Registry, m) /\ marker[m] /\ bodyAttr)
            => (Includes(Registry', m) /\ marker'[m] /\ bodyAttr')]_vars

\* C7: overlays x then y opened on a quiet document: the flag is set while
\* none has closed, still set once y's close sequence has completed, and
\* cleared once x's close sequence has completed after it.
NestedOverlays ==
    /\ (Len(scen.opened) >= 1 /\ scen.closed = <<>>) => bodyAttr
    /\ (Len(scen.opened) = 2 /\ scen.closed = <<scen.opened[2]>>) => bodyAttr
    /\ (Len(scen.opened) = 2 /\ scen.closed = <<scen.opened[2], scen.opened[1]>>)
          => ~bodyAttr

\* C7 witness: both overlays were opened, y and then x have closed
NestedOverlaysDone ==
    /\ Len(scen.opened) = 2
    /\ scen.closed = <<scen.opened[2], scen.opened[1]>>
    /\ ~bodyAttr

\* C8: the turn that removes a registered root as such, no close trigger
\* pending for it, leaves the Registry without it, schedules no timer and
\* dispatches no "closed" on it; and no "closed" is dispatched on a root that
\* is out of the tree, unregistered and has no close continuation pending.
DirectRemoval ==
    [][\A r \in Roots :
          /\ (RemoveNode(r) /\ Includes(Registry, r) /\ ~Closing(timers, r))
                => /\ ~Includes(Registry', r)
                   /\ timers' = timers
                   /\ closedEvents'[r] = 0
          /\ (/\ loc[r] = "out" /\ loc'[r] = "out"
              /\ ~Includes(Registry, r) /\ ~Closing(timers, r))
                => closedEvents'[r] = 0]_vars

\* C8 witness: a root that only a removal as such can have deregistered (its
\* selector is not in the removal list) is out of the tree and unregistered,
\* still with its marker class, and no "closed" was dispatched
DirectRemovalDone ==
    \E r \in Roots :
        /\ kind[r] \notin RemovalSelectors
        /\ loc[r] = "out" /\ marker[r]
        /\ ~Includes(Registry, r)
        /\ closedEvents[r] = 0
        /\ timers = <<>>

\* C9: the snapshot originalBodyStyles is never non-empty while the Registry
\* is empty.
SnapshotNeverOutlivesRegistry ==
    (Registry = <<>>) => (DOMAIN originalBodyStyles[1] = {})

\* C10: no registered overlay whose root has left the tree remains in the
\* Registry.
NoStaleEntries ==
    \A r \in Roots : Includes(Registry, r) => loc[r] # "out"

\* C11: an Escape keypress starts the close sequence (a continuation is
\* scheduled, or "closed" is dispatched) for the last entry of the Registry as
\* it is at the keypress, and for no other root: no other root gets a
\* continuation or a "closed", leaves the Registry or loses its marker class;
\* with an empty Registry the keypress changes nothing.
EscapeClosesTopOnly ==
    [][Keydown("Escape") =>
         IF Registry = <<>>
         THEN /\ timers' = timers /\ activeModals' = activeModals
              /\ bodyAttr' = bodyAttr /\ bodyStyle' = bodyStyle
              /\ originalBodyStyles' = originalBodyStyles
              /\ marker' = marker /\ transform' = transform
              /\ \A m \in Roots : closedEvents'[m] = 0
         ELSE LET top == Registry[Len(Registry)]
              IN  /\ \/ ClosePending(timers', top) = ClosePending(timers, top) + 1
                     \/ closedEvents'[top] = 1
                  /\ \A m \in Roots \ {top} :
                        /\ ClosePending(timers', m) = ClosePending(timers, m)
                        /\ closedEvents'[m] = 0
                        /\ Includes(Registry', m) <=> Includes(Registry, m)
                        /\ marker'[m] = marker[m]]_vars

\* C11 witness: x then y were opened, one Escape was pressed and nothing else
\* dismissed: y has closed, x is registered
EscapeClosedTop ==
    /\ Len(scen.opened) = 2 /\ scen.keys = 1 /\ ~scen.other
    /\ scen.closed = <<scen.opened[2]>>
    /\ Includes(Registry, scen.opened[1])

\* C12: a batch in which a node (an overlay root, or a wrapper of overlay
\* roots) is added and then removed, delivered with nothing registered and
\* the lock not engaged, leaves the Registry empty and the lock not engaged.
BatchLeavesNothing ==
    [][((\/ \E r \in Roots : AddRemoveNode(r)
         \/ \E children \in AllOrders : AddRemoveWrapper(children))
        /\ Registry = <<>> /\ ~bodyAttr)
          => (Registry' = <<>> /\ ~bodyAttr')]_vars

\* C13: preventBackgroundScroll called while the flag is set, and
\* restoreBodyStyles (of any instance) called while the flag is not set,
\* change nothing: body styles, flag and snapshots stay as they are.
LockOperationsIdempotent ==
    /\ bodyAttr => PreventBackgroundScroll(St) = St
    /\ ~bodyAttr => \A i \in 1..insts : RestoreBodyStyles(St, i) = St

\* C13 witness: no session is active and an instance still holds a snapshot
\* that a disengage would write
RedundantDisengage ==
    /\ ~bodyAttr
    /\ \E i \in 1..insts : DOMAIN originalBodyStyles[i] # {}

\* C14: with overlays registered through the manual trigger and through the
\* watcher, a turn that removes no node clears the lock flag only when no
\* overlay is left open: none that is in the document and registered with a
\* coordinator, and for which no close sequence has run in the turn or is
\* pending.
ManualSharesLockSession ==
    [][(/\ bodyAttr /\ ~bodyAttr'
        /\ \A r \in Roots : loc[r] # "out" => loc'[r] # "out")
          => \A r \in Roots :
                ~(/\ loc'[r] # "out"
                  /\ \E i \in 1..insts' : Includes(activeModals'[i], r)
                  /\ closedEvents'[r] = 0
                  /\ ~Closing(timers', r))]_vars

\* C15: on a viewport of width <= 768, an overlay x opened on a quiet
\* document carries the bottom-sheet block and one indicator and the lock flag
\* is set until its close sequence has completed; once it has completed (a
\* close trigger, then the transition delay) the flag is cleared and x has no
\* marker class.
MobileEndToEnd ==
    (innerWidth <= MobileBreakpoint /\ Len(scen.opened) = 1)
      => LET x == scen.opened[1]
         IN  /\ ~Includes(scen.closed, x)
                   => /\ presentation[x] = "sheet" /\ indicator[x] = 1
                      /\ bodyAttr /\ marker[x]
             /\ Includes(scen.closed, x) => (~bodyAttr /\ ~marker[x])

\* C15 witness: x was opened on the mobile branch and its close sequence has
\* completed
MobileEndToEndDone ==
    /\ innerWidth <= MobileBreakpoint
    /\ Len(scen.opened) = 1 /\ scen.closed = <<scen.opened[1]>>
    /\ presentation[scen.opened[1]] = "sheet" /\ indicator[scen.opened[1]] = 1
    /\ ~bodyAttr /\ ~marker[scen.opened[1]]

\* the state of the overlay r, with Registry am and pending timers T
Phase(am, T, r) ==
    IF ~Includes(am, r) THEN "unregistered"
    ELSE IF Closing(T, r) THEN "closing" ELSE "open"

\* the turn is an explicit dismissal trigger
DismissalTurn ==
    \/ \E r \in Roots : ClickClose(r)
    \/ \E r \in Roots : ClickBackdrop(r, "backdrop")
    \/ \E r \in Roots : DispatchClose(r)
    \/ Keydown("Escape")

\* C16: an overlay enters closing only from open and only in a turn of an
\* explicit dismissal trigger; from closing it goes nowhere but to
\* unregistered; and a turn in which its root leaves the tree takes a
\* registered overlay to unregistered.
OverlayStateMachine ==
    [][\A r \in Roots :
          LET before == Phase(Registry, timers, r)
              after == Phase(Registry', timers', r)
          IN  /\ (before # "closing" /\ after = "closing")
                    => (before = "open" /\ DismissalTurn)
              /\ before = "closing" => after \in {"closing", "unregistered"}
              /\ (loc[r] # "out" /\ loc'[r] = "out") => after = "unregistered"]_vars

\* C17: no activeModals array holds the same root twice, whatever the
\* watcher, the scans on construction, the manual trigger, closes and
\* removals have done.
NoDuplicateRoots ==
    \A i \in 1..insts :
        \A j, k \in DOMAIN activeModals[i] :
            j # k => activeModals[i][j] # activeModals[i][k]

\* C17 witness: the manual trigger has constructed a coordinator, and a root
\* is registered with it and with the auto-initialised one
RegisteredWithBoth ==
    /\ insts = 2
    /\ \E r \in Roots : Includes(activeModals[1], r) /\ Includes(activeModals[2], r)

\* C18: whenever a close continuation is pending for an overlay, a state
\* follows in which "closed" has been dispatched on its root, it is not in
\* the Registry and its marker class is stripped.
CloseAlwaysCompletes ==
    \A m \in Roots :
        Closing(timers, m)
          ~> (closedEvents[m] > 0 /\ ~Includes(Registry, m) /\ ~marker[m])

\* C18 witness: on the mobile branch a continuation has just run for a root
\* in the document
CloseCompleted ==
    \E m \in Roots :
        /\ innerWidth <= MobileBreakpoint /\ loc[m] # "out"
        /\ closedEvents[m] > 0 /\ ~Includes(Registry, m) /\ ~marker[m]

\* C19: on a viewport of width > 768 the turn of a close trigger for r ends
\* with r out of the Registry, without marker class, "closed" dispatched on
\* it, the flag cleared if the Registry is empty, and no timer scheduled.
DesktopCloseImmediate ==
    [][\A r \in Roots :
          (/\ innerWidth > MobileBreakpoint
           /\ \/ ClickClose(r)
              \/ ClickBackdrop(r, "backdrop")
              \/ DispatchClose(r)
              \/ (Keydown("Escape") /\ Registry # <<>> /\ Registry[Len(Registry)] = r))
            => /\ ~Includes(Registry', r)
               /\ ~marker'[r]
               /\ closedEvents'[r] >= 1
               /\ timers' = timers
               /\ Registry' = <<>> => ~bodyAttr']_vars

\* C19 witness: on the desktop branch the close sequence of a registered
\* overlay has just run, and another overlay is still registered
DesktopClosed ==
    \E r \in Roots :
        /\ innerWidth > MobileBreakpoint /\ loc[r] # "out"
        /\ closedEvents[r] = 1 /\ ~marker[r] /\ presentation[r] = "centered"
        /\ Registry # <<>> /\ bodyAttr

\* C20: whenever a listener observes "closed" on a root, the root is not in
\* the Registry, its marker class is absent, and the flag is cleared if no
\* overlay is registered.
ClosedDispatchedLast ==
    \A r \in Roots :
        \A seen \in closedSeen[r] :
            /\ ~seen.registered
            /\ ~seen.marker
            /\ ~seen.others => ~seen.locked

\* C20 witness: "closed" was observed in the last turn on a root in the
\* document, with no overlay registered and the flag cleared
ClosedObserved ==
    \E r \in Roots :
        /\ loc[r] # "out"
        /\ \E seen \in closedSeen[r] : ~seen.others /\ ~seen.locked /\ ~seen.registered

\* the turn is a dismissal trigger aimed at r
TriggerFor(r) ==
    \/ ClickClose(r)
    \/ ClickBackdrop(r, "backdrop")
    \/ DispatchClose(r)
    \/ (Keydown("Escape") /\ Registry # <<>> /\ Registry[Len(Registry)] = r)

\* C21: a dismissal trigger for a registered overlay takes the branch of the
\* overlay's layout: deferred (a continuation is scheduled, no "closed" in
\* the turn) when the mobile block was applied at its registration,
\* immediate ("closed" in the turn, nothing scheduled) when the desktop block
\* was, whatever the viewport width has become.
CloseBranchAsApplied ==
    [][\A r \in Roots :
          (Includes(Registry, r) /\ TriggerFor(r))
            => IF presentation[r] = "sheet"
               THEN /\ ClosePending(timers', r) > ClosePending(timers, r)
                    /\ closedEvents'[r] = 0
               ELSE /\ ClosePending(timers', r) = ClosePending(timers, r)
                    /\ closedEvents'[r] >= 1]_vars

\* an entrance callback for m is pending among the timers T
EntrancePending(T, m) == \E k \in DOMAIN T : T[k].type = "entrance" /\ T[k].modal = m

\* C22: a turn that registers a root leaves the close continuations pending
\* for it in place, and a turn in which a continuation for a root runs ends
\* with the root out of the Registry, its marker class stripped, "closed"
\* dispatched, and the flag cleared if the Registry is empty.
ReopenDoesNotAbort ==
    [][\A m \in Roots :
          /\ (~Includes(Registry, m) /\ Includes(Registry', m))
                => ClosePending(timers', m) = ClosePending(timers, m)
          /\ ClosePending(timers', m) < ClosePending(timers, m)
                => /\ ~Includes(Registry', m)
                   /\ ~marker'[m]
                   /\ closedEvents'[m] > 0
                   /\ Registry' = <<>> => ~bodyAttr']_vars

\* C22 witness: a continuation has just run for a root whose entrance callback
\* is still pending, that is, one registered again after the continuation was
\* scheduled; the root is in the document, out of the Registry, unmarked
ReopenedThenClosed ==
    \E m \in Roots :
        /\ closedEvents[m] > 0 /\ EntrancePending(timers, m)
        /\ loc[m] # "out" /\ ~Includes(Registry, m) /\ ~marker[m]
        /\ Registry = <<>> /\ ~bodyAttr

\* C23: a click on the close button, a click on the backdrop and a custom
\* "close" signal each start the close sequence of the root once: one
\* continuation scheduled or one "closed" dispatched.
ListenersWiredOnce ==
    [][\A r \in Roots :
          (ClickClose(r) \/ ClickBackdrop(r, "backdrop") \/ DispatchClose(r))
            => closedEvents'[r] + ClosePending(timers', r) - ClosePending(timers, r) = 1]_vars

\* C24: a click that reaches the backdrop listener from a child of the
\* backdrop leaves Registries, timers, lock, snapshots and overlays as they
\* are; a click on the backdrop itself starts the close sequence of the
\* overlay.
BackdropOnlyOwnClicks ==
    [][\A r \in Roots :
          /\ ClickBackdrop(r, "child")
                => /\ activeModals' = activeModals /\ timers' = timers
                   /\ bodyAttr' = bodyAttr /\ bodyStyle' = bodyStyle
                   /\ originalBodyStyles' = originalBodyStyles
                   /\ marker' = marker /\ transform' = transform
                   /\ \A m \in Roots : closedEvents'[m] = 0
          /\ ClickBackdrop(r, "backdrop")
                => \/ ClosePending(timers', r) = ClosePending(timers, r) + 1
                   \/ closedEvents'[r] = 1]_vars

\* C24 witness: the last turn was a click bubbled from a child of a backdrop,
\* and an overlay with a wired backdrop is registered, the lock engaged
BubbledClickIgnored ==
    /\ scen.last.type = "none" /\ "click" \in DOMAIN scen.last
    /\ \E r \in Roots : Includes(Registry, r) /\ backdropListener[r] # 0 /\ marker[r]
    /\ bodyAttr

\* the number of entrance callbacks pending for m among the timers T
EntranceCount(T, m) ==
    Cardinality({k \in DOMAIN T : T[k].type = "entrance" /\ T[k].modal = m})

\* C25: on the mobile branch the content region's offset is 100% at the end
\* of the turn that registers the overlay, and it is zero at the end of the
\* timer turn that runs its entrance callback.
EntranceNextTick ==
    [][\A m \in Roots :
          /\ (innerWidth <= MobileBreakpoint
               /\ ~Includes(Registry, m) /\ Includes(Registry', m))
                => transform'[m] = "translateY(100%)"
          /\ EntranceCount(timers', m) < EntranceCount(timers, m)
                => transform'[m] = "translateY(0)"]_vars

\* widths the threshold is probed with
ProbeWidths == {0, 375, MobileBreakpoint - 1, MobileBreakpoint, MobileBreakpoint + 1, 1024}

\* C26: for every width, isMobile answers true exactly when the width is
\* <= 768, setModalStyles applies the mobile block exactly then, and
\* closeModal defers exactly then.
ViewportThreshold ==
    \A w \in ProbeWidths, r \in Roots :
        LET s == [St EXCEPT !.innerWidth = w]
        IN  /\ IsMobile(s) <=> (w <= 768)
            /\ (SetModalStyles(s, 1, r).presentation[r] = "sheet") <=> IsMobile(s)
            /\ (Len(CloseModal(s, 1, r).timers) = Len(timers) + 1) <=> IsMobile(s)

\* C26 witness: at width 768 an overlay carries the mobile block and its
\* close is deferred
MobileAtThreshold ==
    /\ innerWidth = 768
    /\ \E r \in Roots : presentation[r] = "sheet" /\ Closing(timers, r)

\* C27: a content region holds at most one indicator, and exactly one once
\* the mobile block was applied to it.
IndicatorOnce ==
    \A r \in Roots :
        /\ indicator[r] <= 1
        /\ presentation[r] = "sheet" => indicator[r] = 1

\* C27 witness: on the mobile branch an overlay registered for the second time
\* holds one indicator
ReappliedOneIndicator ==
    \E r \in Roots :
        /\ innerWidth <= MobileBreakpoint
        /\ Len(closeListeners[r]) = 2 /\ Includes(Registry, r)
        /\ indicator[r] = 1

\* C28: the removal of a node of which neither the node itself nor a
\* descendant is registered leaves the Registry, the body styles, the flag and
\* the snapshot as they are.
UnmatchedRemovalNoOp ==
    [][(\/ \E r \in Roots : RemoveNode(r) /\ ~Includes(Registry, r)
        \/ \E children \in AllOrders :
              /\ RemoveWrapper(children)
              /\ \A k \in DOMAIN children : ~Includes(Registry, children[k]))
          => /\ activeModals' = activeModals
             /\ bodyStyle' = bodyStyle /\ bodyAttr' = bodyAttr
             /\ originalBodyStyles' = originalBodyStyles]_vars

\* C28 witness: the last turn removed a node without registered overlay, and
\* another overlay is registered, the lock engaged
UnmatchedRemovalSeen ==
    /\ scen.last.type = "remove" /\ ~scen.last.matched
    /\ Registry # <<>> /\ bodyAttr
    /\ DOMAIN originalBodyStyles[1] # {}

\* C29: the scan a coordinator runs on construction registers every node of
\* the document that matches a selector checkForModal knows, and the lock is
\* engaged when there is one.
ScanRegistersPresent ==
    [][insts' > insts
          => \A r \in Roots :
                 (loc[r] # "out" /\ kind[r] \in ModalSelectors)
                    => Includes(activeModals'[insts'], r) /\ bodyAttr']_vars

\* C30: the turn that registers an overlay ends with the overlay in the
\* Registry, marked, the lock engaged, and the root as its content region when
\* it has no content element; on the mobile branch the close of such an
\* overlay runs the deferred sequence on the root; an overlay without
\* backdrop has no backdrop listener and one without close button no button
\* listener.
MissingTargetsDegrade ==
    [][\A r \in Roots :
          /\ (~Includes(Registry, r) /\ Includes(Registry', r))
                => /\ marker'[r] /\ bodyAttr'
                   /\ "content" \notin parts[r] => region'[r] = "root"
                   /\ "content" \in parts[r] => region'[r] = "content"
          /\ (/\ innerWidth <= MobileBreakpoint /\ Includes(Registry, r)
              /\ "content" \notin parts[r] /\ TriggerFor(r))
                => /\ ClosePending(timers', r) > ClosePending(timers, r)
                   /\ Includes(Registry', r) /\ closedEvents'[r] = 0
          /\ "backdrop" \notin parts[r] => backdropListener'[r] = 0
          /\ "button" \notin parts[r] => btnListener'[r] = 0]_vars

\* C30 witness: an overlay without content element, backdrop and close button
\* is registered on the mobile branch with the root as content region, the
\* lock engaged, nothing wired but the close listener, and its close pending
BareOverlayRegistered ==
    \E r \in Roots :
        /\ parts[r] = {} /\ Includes(Registry, r) /\ marker[r] /\ bodyAttr
        /\ region[r] = "root"
        /\ backdropListener[r] = 0 /\ btnListener[r] = 0
        /\ innerWidth <= MobileBreakpoint /\ Closing(timers, r)

\* C31: on a page that opens every overlay once and fires dismissal triggers
\* only at overlays that are registered, "closed" is dispatched on a root at
\* most once.
ClosedAtMostOnce == \A r \in Roots : scen.count[r] <= 1

\* C32: on the mobile branch, while a close continuation is pending for an
\* overlay whose content region is at offset 100%, every turn that runs none
\* of its continuations leaves the offset at 100%, the turn of its entrance
\* timer included.
CloseOffsetHeld ==
    [][\A r \in Roots :
          (/\ innerWidth <= MobileBreakpoint
           /\ ClosePending(timers, r) > 0
           /\ transform[r] = "translateY(100%)"
           /\ ClosePending(timers', r) >= ClosePending(timers, r))
             => transform'[r] = "translateY(100%)"]_vars

\* C32 witness: the last turn ran the entrance timer of the only overlay ever
\* opened, after its close was triggered: the overlay is still registered,
\* its close pending and its offset 100%
EntranceAfterCloseTrigger ==
    /\ scen.last.type = "timer"
    /\ innerWidth <= MobileBreakpoint
    /\ closeListeners["B"] = <<>>
    /\ Includes(Registry, "A") /\ Closing(timers, "A")
    /\ ~EntrancePending(timers, "A")
    /\ transform["A"] = "translateY(100%)"

\* C33: with one coordinator, at the end of every turn the snapshot is
\* non-empty if and only if the flag is set; a turn that sets the flag
\* captures the computed styles the body had before the turn, and a turn that
\* begins and ends with the flag set leaves the snapshot as it is.
SnapshotIffFlag ==
    [][/\ (DOMAIN originalBodyStyles'[1] # {}) <=> bodyAttr'
       /\ (~bodyAttr /\ bodyAttr')
             => originalBodyStyles'[1] = [p \in Props |-> ComputedStyle(St, p)]
       /\ (bodyAttr /\ bodyAttr')
             => originalBodyStyles'[1] = originalBodyStyles[1]]_vars

\* C33 witness: a second overlay was registered while the lock was engaged,
\* over a body with authored inline styles, and the snapshot holds the
\* authored position and overflow, not those of the lock
CapturedBeforeLock ==
    /\ Len(Registry) = 2 /\ bodyAttr /\ bodyStyle = LockStyles
    /\ DOMAIN originalBodyStyles[1] = Props
    /\ originalBodyStyles[1]["position"] = "relative"
    /\ originalBodyStyles[1]["overflow"] = "scroll"

\* C34: with one coordinator, at the end of every turn every root in the
\* Registry carries the class mobile-modal-optimized.
RegisteredIsMarked == \A r \in Roots : Includes(Registry, r) => marker[r]

\* C34 witness: a root registered for the second time, after a removal, while
\* a close continuation of its first registration is pending, carries the class
ReregisteredIsMarked ==
    \E r \in Roots :
        /\ Includes(Registry, r) /\ marker[r]
        /\ Len(closeListeners[r]) = 2 /\ Closing(timers, r)

\* arrays without duplicates the array helpers are probed with
ProbeRoots == {"p", "q", "r"}
ProbeSeqs == UNION {Orders(S) : S \in SUBSET ProbeRoots}

\* indexOf and splice(index, 1) take one element out of an array and leave the
\* others in their order
SpliceKeepsOrder ==
    \A seq \in ProbeSeqs, m \in ProbeRoots :
        IndexOf(seq, m) > 0
          => Splice(seq, IndexOf(seq, m)) = SelectSeq(seq, LAMBDA x : x # m)

LockValuesOrOriginal ==
    /\ bodyAttr => bodyStyle = LockStyles
    /\ (~bodyAttr /\ DOMAIN preCapture[1] # {}) => bodyStyle = preCapture[1]

=============================================================================
